---- MODULE Spec2Model ----
(***************************************************************************)
(* File Organizer: organizer_run (src/src/organizer.c) as a state machine  *)
(* over a one-level POSIX directory tree.  File names and paths are        *)
(* strings, built and taken apart the way the C code does it (join_path,   *)
(* strrchr, snprintf "%s/%s_%d%s", to_lowercase).  The filesystem is the   *)
(* environment: stat follows symbolic links, mkdir and rename have their   *)
(* POSIX outcomes.  Path buffers (PATH_MAX) are assumed large enough for   *)
(* every path of the model, so snprintf never truncates.                   *)
(***************************************************************************)
EXTENDS Integers, Sequences, FiniteSets, TLC

VARIABLES
    cfg,      \* the OrganizerConfig handed to organizer_run
    fs,       \* the filesystem
    fs0,      \* the filesystem when the current run was entered
    pc,       \* "idle" | "scanning" | "done": position of organizer_run
    pending,  \* directory entries readdir has not returned yet
    result,   \* organizer_run's local `result` / its return value once done
    log,      \* the records logger_log printed during the current run
    run,      \* 1 for the first invocation, 2 for the immediate re-run
    first     \* outcome of the first invocation, kept for the re-run

vars == <<cfg, fs, fs0, pc, pending, result, log, run, first>>

(***************************************************************************)
(* Bounds of the model and constants of the program.                       *)
(***************************************************************************)
MaxEntries == 2

\* The same bound for the runs checked for termination under fairness
MaxEntriesFair == 1

SUFFIX_LIMIT == 10000

EXT_BUF == 64

LOG_LEVEL_ERROR == 0

LOG_LEVEL_WARN == 1

LOG_LEVEL_INFO == 2

LOG_LEVEL_DEBUG == 3

DEFAULT_CATEGORY == "Other"

EXTENSION_TABLE ==
    << [ext |-> "jpg",  category |-> "Images"],
       [ext |-> "jpeg", category |-> "Images"],
       [ext |-> "png",  category |-> "Images"],
       [ext |-> "gif",  category |-> "Images"],
       [ext |-> "bmp",  category |-> "Images"],
       [ext |-> "tif",  category |-> "Images"],
       [ext |-> "tiff", category |-> "Images"],
       [ext |-> "svg",  category |-> "Images"],
       [ext |-> "txt",  category |-> "Documents"],
       [ext |-> "md",   category |-> "Documents"],
       [ext |-> "pdf",  category |-> "Documents"],
       [ext |-> "doc",  category |-> "Documents"],
       [ext |-> "docx", category |-> "Documents"],
       [ext |-> "rtf",  category |-> "Documents"],
       [ext |-> "xls",  category |-> "Spreadsheets"],
       [ext |-> "xlsx", category |-> "Spreadsheets"],
       [ext |-> "csv",  category |-> "Spreadsheets"],
       [ext |-> "ppt",  category |-> "Presentations"],
       [ext |-> "pptx", category |-> "Presentations"],
       [ext |-> "mp3",  category |-> "Audio"],
       [ext |-> "wav",  category |-> "Audio"],
       [ext |-> "flac", category |-> "Audio"],
       [ext |-> "aac",  category |-> "Audio"],
       [ext |-> "ogg",  category |-> "Audio"],
       [ext |-> "mp4",  category |-> "Video"],
       [ext |-> "mkv",  category |-> "Video"],
       [ext |-> "avi",  category |-> "Video"],
       [ext |-> "mov",  category |-> "Video"],
       [ext |-> "wmv",  category |-> "Video"],
       [ext |-> "zip",  category |-> "Archives"],
       [ext |-> "rar",  category |-> "Archives"],
       [ext |-> "7z",   category |-> "Archives"],
       [ext |-> "tar",  category |-> "Archives"],
       [ext |-> "gz",   category |-> "Archives"],
       [ext |-> "c",    category |-> "Source"],
       [ext |-> "h",    category |-> "Source"],
       [ext |-> "cpp",  category |-> "Source"],
       [ext |-> "hpp",  category |-> "Source"],
       [ext |-> "py",   category |-> "Source"],
       [ext |-> "java", category |-> "Source"],
       [ext |-> "js",   category |-> "Source"],
       [ext |-> "ts",   category |-> "Source"],
       [ext |-> "cs",   category |-> "Source"],
       [ext |-> "go",   category |-> "Source"],
       [ext |-> "rb",   category |-> "Source"],
       [ext |-> "php",  category |-> "Source"] >>

(***************************************************************************)
(* C strings.                                                              *)
(***************************************************************************)
\* A local variable: v is computed once and F is evaluated on its value
Let(v, F(_)) == CHOOSE r \in {F(x) : x \in {v}} : TRUE

CharAt(s, i) == SubSeq(s, i, i)

UpperChars == "ABCDEFGHIJKLMNOPQRSTUVWXYZ"

LowerChars == "abcdefghijklmnopqrstuvwxyz"

\* strrchr(s, c): index of the last c in s, 0 when there is none
strrchr(s, c) ==
    LET idx == {i \in 1..Len(s) : CharAt(s, i) = c}
    IN  IF idx = {} THEN 0 ELSE CHOOSE i \in idx : \A j \in idx : j <= i

\* printf's %d of a non-negative int
RECURSIVE FormatInt(_)
FormatInt(i) ==
    IF i < 10 THEN CharAt("0123456789", i + 1)
    ELSE FormatInt(i \div 10) \o CharAt("0123456789", (i % 10) + 1)

RECURSIVE to_lowercase(_)
to_lowercase(s) ==
    IF s = "" THEN ""
    ELSE LET c == CharAt(s, 1)
             u == {i \in 1..Len(UpperChars) : CharAt(UpperChars, i) = c}
         IN  (IF u = {} THEN c ELSE CharAt(LowerChars, CHOOSE i \in u : TRUE))
             \o to_lowercase(SubSeq(s, 2, Len(s)))

join_path(dir, name) ==
    LET len == Len(dir)
        needs_sep == ~(len > 0 /\ (CharAt(dir, len) = "/" \/ CharAt(dir, len) = "\\"))
    IN  IF needs_sep THEN dir \o "/" \o name ELSE dir \o name

\* A possibly-NULL C string
NullStr == [null |-> TRUE, s |-> ""]

Str(s) == [null |-> FALSE, s |-> s]

get_extension(name) ==
    LET dot == strrchr(name, ".")
    IN  IF dot = 0 \/ dot = 1 THEN NullStr
        ELSE Str(SubSeq(name, dot + 1, Len(name)))

\* The first row of EXTENSION_TABLE whose extension is key
first_match(key) ==
    Let({i \in 1..Len(EXTENSION_TABLE) : EXTENSION_TABLE[i].ext = key},
        LAMBDA hit :
            IF hit = {} THEN DEFAULT_CATEGORY
            ELSE EXTENSION_TABLE[CHOOSE i \in hit : \A j \in hit : i <= j].category)

\* category_for_extension with the strcmp done on ext as given
category_for_extension_as_given(ext) ==
    IF ext.null THEN DEFAULT_CATEGORY
    ELSE IF Len(ext.s) = 0 \/ Len(ext.s) >= EXT_BUF THEN DEFAULT_CATEGORY
    ELSE first_match(ext.s)

category_for_extension(ext) ==
    IF ext.null THEN DEFAULT_CATEGORY
    ELSE IF Len(ext.s) = 0 \/ Len(ext.s) >= EXT_BUF THEN DEFAULT_CATEGORY
    ELSE Let(to_lowercase(ext.s), LAMBDA tmp : first_match(tmp))

(***************************************************************************)
(* The filesystem.  A node is what one directory entry names: `type` is    *)
(* what stat() reports after following symbolic links ("reg", "dir",       *)
(* "fifo", or "none" when nothing is there), `link` tells whether the      *)
(* entry itself is a symbolic link (a dangling link has type "none"), and  *)
(* `id` identifies the file.  fs.top maps the names in the target          *)
(* directory to nodes; fs.sub gives, for every name that stat() reports as *)
(* a directory, its contents: the entries it had initially (named by a     *)
(* tag, see PreOf) overlaid with the entries put there since.  fs.ro is    *)
(* the set of subdirectories without write permission.  fs.base is what    *)
(* the target path itself names: a directory ("dir"), a directory that     *)
(* cannot be opened for reading ("noread"), a file, or nothing.            *)
(***************************************************************************)
NoNode == [type |-> "none", link |-> FALSE, id |-> 0, rel |-> FALSE, to |-> ""]

Node(type, link, id) ==
    [type |-> type, link |-> link, id |-> id, rel |-> FALSE, to |-> ""]

\* A symbolic link with a relative target outside the target directory
\* ("../x"): the target is looked up from the directory that holds the
\* link, and `type` is what stat() finds from the target directory
RelLink(type, id) ==
    [type |-> type, link |-> TRUE, id |-> id, rel |-> TRUE, to |-> ""]

\* A symbolic link with a relative target inside the target directory:
\* `to` is the target as a path from the target directory ("a.jpg",
\* "Images/a.jpg").  What stat() finds through it depends on what is at the
\* target at that moment (see target_type); the targets are never links
\* themselves.
InnerLink(to, id) ==
    [type |-> "none", link |-> TRUE, id |-> id, rel |-> TRUE, to |-> to]

NoEntries == [n \in {} |-> NoNode]

PreOne == [n \in {"report.txt"} |-> Node("reg", FALSE, 0)]

PreTwo == [n \in {"report.txt", "report_1.txt"} |-> Node("reg", FALSE, 0)]

PreDangling == [n \in {"report.txt"} |-> Node("none", TRUE, 0)]

\* The listing of the directory whose suffix range for report.txt is used
\* up: report.txt and report_<i>.txt for every i in 1 .. SUFFIX_LIMIT - 1
FullNames ==
    {"report.txt"} \cup
    {"report_" \o FormatInt(i) \o ".txt" : i \in 1..(SUFFIX_LIMIT - 1)}

PreDot == [n \in {".bashrc", "c"} |-> Node("reg", FALSE, 0)]

PreInner == [n \in {"x.png"} |-> Node("reg", FALSE, 0)]

PreOf(tag) ==
    CASE tag = "one"      -> PreOne
      [] tag = "two"      -> PreTwo
      [] tag = "dangling" -> PreDangling
      [] tag = "dot"      -> PreDot
      [] tag = "inner"    -> PreInner
      [] OTHER            -> NoEntries

Dir(tag) == [pre |-> tag, put |-> NoEntries]

DirLookup(d, name) ==
    IF name \in DOMAIN d.put THEN d.put[name]
    ELSE IF d.pre = "full"
    THEN IF name \in FullNames THEN Node("reg", FALSE, 0) ELSE NoNode
    ELSE IF name \in DOMAIN PreOf(d.pre) THEN PreOf(d.pre)[name]
    ELSE NoNode

\* The components of a path, empty ones (repeated separators) dropped
RECURSIVE Split(_)
Split(s) ==
    IF s = "" THEN << >>
    ELSE IF \A i \in 1..Len(s) : CharAt(s, i) # "/" THEN <<s>>
    ELSE LET k == CHOOSE i \in 1..Len(s) :
                      /\ CharAt(s, i) = "/"
                      /\ \A j \in 1..(i - 1) : CharAt(s, j) # "/"
         IN  (IF k = 1 THEN << >> ELSE <<SubSeq(s, 1, k - 1)>>)
             \o Split(SubSeq(s, k + 1, Len(s)))

BaseName == "d"

BaseIsDir(f) == f.base \in {"dir", "noread"}

BaseNode(f) ==
    CASE f.base \in {"dir", "noread"} -> Node("dir", FALSE, 0)
      [] f.base = "file"              -> Node("reg", FALSE, 0)
      [] OTHER                        -> NoNode

TopNode(f, name) ==
    IF BaseIsDir(f) /\ name \in DOMAIN f.top THEN f.top[name] ELSE NoNode

\* lstat(): the node a path names, symbolic links not followed at the leaf
\* The node the components c name
walk(f, c) ==
    IF Len(c) = 0 \/ Len(c) > 3 \/ c[1] # BaseName THEN NoNode
    ELSE IF Len(c) = 1 THEN BaseNode(f)
    ELSE IF Len(c) = 2 THEN TopNode(f, c[2])
    ELSE IF TopNode(f, c[2]).type = "dir" THEN DirLookup(f.sub[c[2]], c[3])
    ELSE NoNode

\* What stat() finds at the node n: the node's own type, or for a link into
\* the target directory the type of what its target names now
target_type(f, n) ==
    IF n.to = "" THEN n.type
    ELSE walk(f, Split(BaseName \o "/" \o n.to)).type

\* lstat(): the node a path names, symbolic links not followed at the leaf.
\* A path that ends in a separator names a directory or nothing (ENOTDIR).
lstat(f, path) ==
    Let(Split(path), LAMBDA c :
    Let(walk(f, c), LAMBDA n :
        IF path # "" /\ CharAt(path, Len(path)) = "/" /\ target_type(f, n) # "dir"
        THEN NoNode
        ELSE n))

\* stat(): rc 0 and the file type, or rc -1 (nothing there, dangling link)
stat(f, path) ==
    Let(lstat(f, path), LAMBDA n :
    Let(target_type(f, n), LAMBDA t :
        IF t = "none" THEN [rc |-> -1, mode |-> "none"]
        ELSE [rc |-> 0, mode |-> t]))

\* The listing of the directory a path names (nothing when it names none),
\* and stat() of one name in such a listing: stat(f, dir/name) with the
\* walk to dir done once
entries_of(f, dir_path) ==
    Let(Split(dir_path), LAMBDA c :
        IF Len(c) = 2 /\ c[1] = BaseName /\ TopNode(f, c[2]).type = "dir"
        THEN f.sub[c[2]]
        ELSE Dir("empty"))

stat_in(f, d, name) ==
    Let(DirLookup(d, name), LAMBDA n :
    Let(target_type(f, n), LAMBDA t :
        IF t = "none" THEN [rc |-> -1, mode |-> "none"]
        ELSE [rc |-> 0, mode |-> t]))

Without(fn, name) == [n \in DOMAIN fn \ {name} |-> fn[n]]

With(fn, name, v) == [n \in DOMAIN fn \cup {name} |-> IF n = name THEN v ELSE fn[n]]

\* mkdir(path, 0755) of an immediate child of the target directory
mkdir(f, path) ==
    Let(Split(path), LAMBDA c :
        IF Len(c) # 2 \/ c[1] # BaseName \/ ~BaseIsDir(f)
           \/ lstat(f, path) # NoNode
        THEN [rc |-> -1, fs |-> f]
        ELSE [rc |-> 0,
              fs |-> [f EXCEPT !.top = With(f.top, c[2], Node("dir", FALSE, 0)),
                               !.sub = With(f.sub, c[2], Dir("empty"))]])

\* The node n moved into the subdirectory dir.  A symbolic link with a
\* relative target is looked up from there: a target outside the target
\* directory is no longer found, one inside it is now dir/<target>.
moved_down(n, dir) ==
    IF ~(n.link /\ n.rel) THEN n
    ELSE IF n.to = "" THEN [n EXCEPT !.type = "none"]
    ELSE [n EXCEPT !.to = dir \o "/" \o n.to]

\* rename(src, dst) of an entry of the target directory into a subdirectory:
\* the entry itself moves (a symbolic link is not followed) and replaces
\* whatever non-directory entry dst names
rename(f, src, dst) ==
    Let([s |-> Split(src), d |-> Split(dst),
         n |-> lstat(f, src), o |-> lstat(f, dst)], LAMBDA v :
        IF Len(v.s) # 2 \/ Len(v.d) # 3 \/ v.n = NoNode
           \/ TopNode(f, v.d[2]).type # "dir" \/ v.d[2] \in f.ro
           \/ (v.o.type = "dir" /\ ~v.o.link)
        THEN [rc |-> -1, fs |-> f]
        ELSE [rc |-> 0,
              fs |-> [f EXCEPT !.top = Without(f.top, v.s[2]),
                               !.sub[v.d[2]].put =
                                   With(f.sub[v.d[2]].put, v.d[3],
                                        moved_down(v.n, v.d[2]))]])

(***************************************************************************)
(* The logger (src/src/logger.c).  A log line is kept as a record of its   *)
(* level, its message and the (at most two) strings formatted into it.     *)
(***************************************************************************)
Line(level, msg, a, b) == [level |-> level, msg |-> msg, a |-> a, b |-> b]

\* main() sets the level from --verbose before it calls organizer_run
current_level(c) == IF c.verbose THEN LOG_LEVEL_DEBUG ELSE LOG_LEVEL_INFO

logger_log(lg, lvl, line) == IF line.level > lvl THEN lg ELSE lg \cup {line}

(***************************************************************************)
(* The organizer (src/src/organizer.c).                                    *)
(***************************************************************************)
\* ensure_directory_exists that reports a directory already there as an error
ensure_directory_exists_new_only(f, lg, lvl, base_dir, category) ==
    Let(join_path(base_dir, category), LAMBDA out_path :
    Let(mkdir(f, out_path), LAMBDA m :
        IF m.rc # 0
        THEN [rc |-> -1, out_path |-> out_path, fs |-> f,
              log |-> logger_log(lg, lvl,
                         Line(LOG_LEVEL_ERROR, "Failed to create directory",
                              out_path, ""))]
        ELSE [rc |-> 0, out_path |-> out_path, fs |-> m.fs,
              log |-> logger_log(lg, lvl,
                         Line(LOG_LEVEL_INFO, "Created directory",
                              out_path, ""))]))

ensure_directory_exists(f, lg, lvl, base_dir, category) ==
    Let(join_path(base_dir, category), LAMBDA out_path :
    Let(stat(f, out_path), LAMBDA st :
        IF st.rc = 0
        THEN IF st.mode = "dir"
             THEN [rc |-> 0, out_path |-> out_path, fs |-> f, log |-> lg]
             ELSE [rc |-> -1, out_path |-> out_path, fs |-> f,
                   log |-> logger_log(lg, lvl,
                              Line(LOG_LEVEL_ERROR,
                                   "Path exists but is not a directory",
                                   out_path, ""))]
        ELSE Let(mkdir(f, out_path), LAMBDA m :
             IF m.rc # 0
             THEN [rc |-> -1, out_path |-> out_path, fs |-> f,
                   log |-> logger_log(lg, lvl,
                              Line(LOG_LEVEL_ERROR, "Failed to create directory",
                                   out_path, ""))]
             ELSE [rc |-> 0, out_path |-> out_path, fs |-> m.fs,
                   log |-> logger_log(lg, lvl,
                              Line(LOG_LEVEL_INFO, "Created directory",
                                   out_path, ""))])))

\* filename split at its last dot into base name and extension (the dot
\* stays with the extension); no dot, or a leading one: no extension
split_name(filename) ==
    Let(strrchr(filename, "."), LAMBDA dot :
        IF dot = 0 \/ dot = 1
        THEN [name |-> filename, ext |-> ""]
        ELSE [name |-> SubSeq(filename, 1, dot - 1),
              ext  |-> SubSeq(filename, dot, Len(filename))])

\* snprintf(out_path, out_size, "%s/%s_%d%s", category_dir, name, i, ext)
suffixed_path(category_dir, name, i, ext) ==
    category_dir \o "/" \o name \o "_" \o FormatInt(i) \o ext

\* The for loop over i = 1 .. SUFFIX_LIMIT - 1, which returns at the first i
\* whose candidate stat() does not find: the least such i, 0 when the loop
\* runs to its end.  The candidate of suffix i is suffixed_path(category_dir,
\* sp.name, i, sp.ext), and stat() of it is the lookup of its last component
\* in category_dir.
first_free_suffix(f, category_dir, sp) ==
    Let(entries_of(f, category_dir), LAMBDA d :
        LET free(i) ==
                stat_in(f, d, sp.name \o "_" \o FormatInt(i) \o sp.ext).rc # 0
        IN  IF \E i \in 1..(SUFFIX_LIMIT - 1) : free(i)
            THEN CHOOSE i \in 1..(SUFFIX_LIMIT - 1) :
                     free(i) /\ \A j \in 1..(i - 1) : ~free(j)
            ELSE 0)

\* build_unique_destination that settles for the last candidate when the
\* loop runs to its end
build_unique_destination_last_candidate(f, lg, lvl, category_dir, filename) ==
    Let(join_path(category_dir, filename), LAMBDA plain :
        IF stat(f, plain).rc # 0
        THEN [rc |-> 0, out_path |-> plain, log |-> lg]
        ELSE Let(split_name(filename), LAMBDA sp :
             Let(first_free_suffix(f, category_dir, sp), LAMBDA i :
                 [rc |-> 0,
                  out_path |-> suffixed_path(category_dir, sp.name,
                                  IF i # 0 THEN i ELSE SUFFIX_LIMIT - 1, sp.ext),
                  log |-> lg])))

build_unique_destination(f, lg, lvl, category_dir, filename) ==
    Let(join_path(category_dir, filename), LAMBDA plain :
        IF stat(f, plain).rc # 0
        THEN [rc |-> 0, out_path |-> plain, log |-> lg]
        ELSE Let(split_name(filename), LAMBDA sp :
             Let(first_free_suffix(f, category_dir, sp), LAMBDA i :
                 IF i # 0
                 THEN [rc |-> 0,
                       out_path |-> suffixed_path(category_dir, sp.name, i, sp.ext),
                       log |-> lg]
                 ELSE [rc |-> -1,
                       out_path |-> suffixed_path(category_dir, sp.name,
                                                  SUFFIX_LIMIT - 1, sp.ext),
                       log |-> logger_log(lg, lvl,
                                  Line(LOG_LEVEL_ERROR,
                                       "Could not generate unique name",
                                       filename, category_dir))])))

\* move_entry that leaves result as it is when rename fails
move_entry_keeps_result(st, c, src_path, dst_path) ==
    IF c.dry_run
    THEN [st EXCEPT !.log = logger_log(st.log, current_level(c),
                      Line(LOG_LEVEL_INFO, "[DRY-RUN] Move", src_path, dst_path))]
    ELSE Let(rename(st.fs, src_path, dst_path), LAMBDA r :
         IF r.rc # 0
         THEN [fs |-> st.fs, result |-> st.result,
               log |-> logger_log(st.log, current_level(c),
                          Line(LOG_LEVEL_ERROR, "Failed to move", src_path, dst_path))]
         ELSE [fs |-> r.fs, result |-> st.result,
               log |-> logger_log(st.log, current_level(c),
                          Line(LOG_LEVEL_INFO, "Moved", src_path, dst_path))])

\* The last step of the loop body: the dry-run report or the rename
move_entry(st, c, src_path, dst_path) ==
    IF c.dry_run
    THEN [st EXCEPT !.log = logger_log(st.log, current_level(c),
                      Line(LOG_LEVEL_INFO, "[DRY-RUN] Move", src_path, dst_path))]
    ELSE Let(rename(st.fs, src_path, dst_path), LAMBDA r :
         IF r.rc # 0
         THEN [fs |-> st.fs, result |-> 1,
               log |-> logger_log(st.log, current_level(c),
                          Line(LOG_LEVEL_ERROR, "Failed to move", src_path, dst_path))]
         ELSE [fs |-> r.fs, result |-> st.result,
               log |-> logger_log(st.log, current_level(c),
                          Line(LOG_LEVEL_INFO, "Moved", src_path, dst_path))])

\* A regular entry: classify, provision, resolve, act
organize_entry(st, c, name, src_path) ==
    Let(category_for_extension(get_extension(name)), LAMBDA category :
    Let(ensure_directory_exists(st.fs, st.log, current_level(c),
                                c.target_dir, category), LAMBDA e :
        IF e.rc # 0 THEN [fs |-> e.fs, result |-> 1, log |-> e.log]
        ELSE Let(build_unique_destination(e.fs, e.log, current_level(c),
                                          e.out_path, name), LAMBDA b :
             IF b.rc # 0 THEN [fs |-> e.fs, result |-> 1, log |-> b.log]
             ELSE move_entry([fs |-> e.fs, result |-> st.result, log |-> b.log],
                             c, src_path, b.out_path))))

\* One iteration of the readdir loop, for the entry called name;
\* st = [fs, result, log] is the state it runs in and the value is the
\* state it leaves
loop_body(st, c, name) ==
    IF name = "." \/ name = ".." THEN st
    ELSE Let(join_path(c.target_dir, name), LAMBDA src_path :
         Let(stat(st.fs, src_path), LAMBDA s :
             IF s.rc # 0
             THEN [st EXCEPT !.log = logger_log(st.log, current_level(c),
                               Line(LOG_LEVEL_WARN, "Skipping (cannot stat)",
                                    src_path, ""))]
             ELSE IF s.mode # "reg"
             THEN IF c.verbose
                  THEN [st EXCEPT !.log = logger_log(st.log, current_level(c),
                                    Line(LOG_LEVEL_DEBUG, "Skipping non-regular file",
                                         src_path, ""))]
                  ELSE st
             ELSE organize_entry(st, c, name, src_path)))

\* validate that takes any path stat() finds for a directory
validate_any_path(c, f) ==
    IF c.kind # "ok" THEN "Invalid configuration"
    ELSE IF stat(f, c.target_dir).rc # 0 THEN "Cannot access directory"
    ELSE IF f.base = "noread" THEN "Failed to open directory"
    ELSE ""

\* organizer_run up to the loop: the checks of the configuration and of the
\* target directory; "" when the scan can start, else the error logged
validate(c, f) ==
    IF c.kind # "ok" THEN "Invalid configuration"
    ELSE IF stat(f, c.target_dir).rc # 0 THEN "Cannot access directory"
    ELSE IF stat(f, c.target_dir).mode # "dir" THEN "Path is not a directory"
    ELSE IF f.base = "noread" THEN "Failed to open directory"
    ELSE ""

(***************************************************************************)
(* Initial states: the configurations and the directory contents the runs  *)
(* are checked on.  A target directory holds at most MaxEntries of the     *)
(* entries of Pool, no two with the same name.                             *)
(***************************************************************************)
Entry(name, type, link, id, tag, ro) ==
    [name |-> name, node |-> Node(type, link, id), tag |-> tag, ro |-> ro]

Pool ==
    { Entry("a.jpg",        "reg",  FALSE, 1,  "empty",    FALSE),
      Entry("c",            "reg",  FALSE, 3,  "empty",    FALSE),
      Entry("data.xyz",     "reg",  FALSE, 23, "empty",    FALSE),
      Entry("report.txt",   "reg",  FALSE, 4,  "empty",    FALSE),
      Entry(".bashrc",      "reg",  FALSE, 6,  "empty",    FALSE),
      Entry("L.PNG",        "reg",  TRUE,  7,  "empty",    FALSE),
      [name |-> "L.PNG", node |-> RelLink("reg", 19), tag |-> "empty", ro |-> FALSE],
      Entry("pipe",         "fifo", FALSE, 8,  "empty",    FALSE),
      [name |-> "y",     node |-> InnerLink("Images/a.jpg", 20), tag |-> "empty", ro |-> FALSE],
      [name |-> "x.txt", node |-> InnerLink("a.jpg", 21),        tag |-> "empty", ro |-> FALSE],
      Entry("Images",       "reg",  FALSE, 11, "empty",    FALSE),
      Entry("Images",       "dir",  FALSE, 12, "empty",    TRUE),
      Entry("Images",       "none", TRUE,  13, "empty",    FALSE),
      Entry("Documents",    "dir",  FALSE, 14, "one",      FALSE),
      Entry("Documents",    "dir",  FALSE, 15, "two",      FALSE),
      Entry("Documents",    "dir",  FALSE, 16, "dangling", FALSE),
      Entry("Other",        "dir",  FALSE, 18, "dot",      FALSE) }

\* The directory of the end-to-end scenario
EndToEnd ==
    { Entry("a.jpg", "reg", FALSE, 1,  "empty", FALSE),
      Entry("b.txt", "reg", FALSE, 2,  "empty", FALSE),
      Entry("c",     "reg", FALSE, 3,  "empty", FALSE),
      Entry("notes", "dir", FALSE, 10, "inner", FALSE) }

\* The directory whose category folder has no free suffix left for report.txt
Exhausted ==
    { Entry("report.txt", "reg", FALSE, 4,  "empty", FALSE),
      Entry("Documents",  "dir", FALSE, 17, "full",  FALSE) }

\* The directory with two files that want the same free name in Documents
NameTaken ==
    { Entry("report.txt",   "reg", FALSE, 4,  "empty", FALSE),
      Entry("report_1.txt", "reg", FALSE, 22, "empty", FALSE),
      Entry("Documents",    "dir", FALSE, 14, "one",   FALSE) }

Listings(max) ==
    {E \in SUBSET Pool :
        /\ Cardinality(E) <= max
        /\ \A x, y \in E : x.name = y.name => x = y}
    \cup {EndToEnd, Exhausted, NameTaken}

FsOf(E, base) ==
    [base |-> base,
     top  |-> [n \in {e.name : e \in E} |-> (CHOOSE e \in E : e.name = n).node],
     sub  |-> [n \in {e.name : e \in {x \in E : x.node.type = "dir"}}
                 |-> Dir((CHOOSE e \in E : e.name = n).tag)],
     ro   |-> {e.name : e \in {x \in E : x.ro}}]

Config(kind, target_dir, dry_run, verbose) ==
    [kind |-> kind, target_dir |-> target_dir, dry_run |-> dry_run, verbose |-> verbose]

OkConfigs ==
    { Config("ok", "d",  FALSE, FALSE),
      Config("ok", "d",  TRUE,  TRUE),
      Config("ok", "d/", FALSE, TRUE),
      Config("ok", "d/", TRUE,  FALSE) }

NullConfigs ==
    { Config("nullcfg",    "", FALSE, FALSE),
      Config("nulltarget", "", FALSE, FALSE) }

\* The (configuration, filesystem) pairs the runs start from: every
\* listing under a usable configuration, and the ways a run cannot start
Scenarios(max) ==
    {<<c, FsOf(E, "dir")>> : c \in OkConfigs \cup NullConfigs, E \in Listings(max)}
    \cup {<<c, FsOf(E, "noread")>> : c \in OkConfigs, E \in Listings(max)}
    \cup {<<c, FsOf({}, b)>> : c \in OkConfigs, b \in {"file", "missing"}}

NoRun == [result |-> 0, log |-> {}]

InitOf(max) ==
    /\ \E sc \in Scenarios(max) : cfg = sc[1] /\ fs = sc[2]
    /\ fs0 = fs
    /\ pc = "idle"
    /\ pending = {}
    /\ result = 0
    /\ log = {}
    /\ run = 1
    /\ first = NoRun

Init == InitOf(MaxEntries)

FairInit == InitOf(MaxEntriesFair)

(***************************************************************************)
(* Actions.                                                                *)
(***************************************************************************)
\* organizer_run is entered (the first time, or again right after it
\* returned): validation, opendir and the opening log line
Start ==
    /\ pc = "idle" \/ (pc = "done" /\ run = 1)
    /\ run' = IF pc = "idle" THEN 1 ELSE 2
    /\ first' = IF pc = "idle" THEN first ELSE [result |-> result, log |-> log]
    /\ fs0' = fs
    /\ LET err == validate(cfg, fs)
       IN  IF err # ""
           THEN /\ pc' = "done"
                /\ result' = 1
                /\ pending' = {}
                /\ log' = logger_log({}, current_level(cfg),
                             Line(LOG_LEVEL_ERROR, err, cfg.target_dir, ""))
           ELSE /\ pc' = "scanning"
                /\ result' = 0
                /\ pending' = DOMAIN fs.top \cup {".", ".."}
                /\ log' = logger_log({}, current_level(cfg),
                             Line(LOG_LEVEL_INFO, "Organizing files in",
                                  cfg.target_dir,
                                  IF cfg.dry_run THEN " (dry-run mode)" ELSE ""))
    /\ UNCHANGED <<cfg, fs>>

\* ReadEntry in a loop that is left at the first entry that fails
ReadEntry_until_failure ==
    /\ pc = "scanning"
    /\ UNCHANGED <<cfg, fs0, pc, run, first>>
    /\ \E name \in pending :
         \E st \in {loop_body([fs |-> fs, result |-> result, log |-> log], cfg, name)} :
             /\ pending' = IF st.result # result THEN {} ELSE pending \ {name}
             /\ fs' = st.fs
             /\ result' = st.result
             /\ log' = st.log

\* readdir returns an entry that was there at opendir; the loop body runs
ReadEntry ==
    /\ pc = "scanning"
    /\ UNCHANGED <<cfg, fs0, pc, run, first>>
    /\ \E name \in pending :
         /\ pending' = pending \ {name}
         /\ \E st \in {loop_body([fs |-> fs, result |-> result, log |-> log], cfg, name)} :
               /\ fs' = st.fs
               /\ result' = st.result
               /\ log' = st.log

\* readdir returns an entry created since opendir (POSIX leaves open whether
\* it does); the loop body runs on it
ReadCreated ==
    /\ pc = "scanning"
    /\ UNCHANGED <<cfg, fs0, pc, pending, run, first>>
    /\ \E name \in {n \in DOMAIN fs.top :
                        n \notin DOMAIN fs0.top \/ fs.top[n] # fs0.top[n]} :
         \E st \in {loop_body([fs |-> fs, result |-> result, log |-> log], cfg, name)} :
             /\ fs' = st.fs
             /\ result' = st.result
             /\ log' = st.log

\* readdir returns NULL: closedir and return result
Finish ==
    /\ pc = "scanning"
    /\ pending = {}
    /\ pc' = "done"
    /\ UNCHANGED <<cfg, fs, fs0, pending, result, log, run, first>>

Next == Start \/ ReadEntry \/ ReadCreated \/ Finish

Spec == Init /\ [][Next]_vars

\* A call of organizer_run that has been entered keeps executing
FairSpec == FairInit /\ [][Next]_vars /\ WF_vars(Next)

TypeOK ==
    /\ pc \in {"idle", "scanning", "done"}
    /\ result \in {0, 1}
    /\ run \in {1, 2}

(***************************************************************************)
(* Vocabulary of the properties.                                           *)
(***************************************************************************)
\* The category folder the documentation promises for each name of the model
ExpectedCategory ==
    [n \in {"a.jpg", "L.PNG"} |-> "Images"]
    @@ [n \in {"b.txt", "report.txt", "report_1.txt", "report_2.txt", "x.txt"}
          |-> "Documents"]
    @@ [n \in {"c", "data.xyz", ".bashrc", "Images", "Documents", "Other",
                "notes", "pipe", "y"}
          |-> "Other"]

CategoryNames ==
    {EXTENSION_TABLE[i].category : i \in 1..Len(EXTENSION_TABLE)} \cup {DEFAULT_CATEGORY}

\* The run could start: usable configuration, target is a readable directory
CanStart == cfg.kind = "ok" /\ fs0.base = "dir"

\* Names in the target directory that stat() reports as regular files:
\* regular files and symbolic links that resolve to one
RegularNames(f) ==
    {n \in DOMAIN f.top : target_type(f, f.top[n]) = "reg"}

\* Regular files in the sense of the specification: plain data, no links
RegularFiles(f) == {n \in RegularNames(f) : ~f.top[n].link}

\* Entries that are not plain regular files: directories, symbolic links,
\* special files
NonRegularNames(f) ==
    {n \in DOMAIN f.top : target_type(f, f.top[n]) # "reg" \/ f.top[n].link}

\* No top-level symbolic link has its target inside the target directory
NoLinkIntoTarget(f) == \A n \in DOMAIN f.top : f.top[n].to = ""

\* Where the file with identity id is: <<"", name>> at the top level,
\* <<dir, name>> inside a subdirectory
Places(f, id) ==
    {<<"", n>> : n \in {m \in DOMAIN f.top : f.top[m].id = id}}
    \cup UNION { {<<d, n>> : n \in {m \in DOMAIN f.sub[d].put : f.sub[d].put[m].id = id}}
                 : d \in DOMAIN f.sub }

SrcPath(n) == "d/" \o n

CategoryPath(n) == "d/" \o ExpectedCategory[n]

ErrorLines == {l \in log : l.level = LOG_LEVEL_ERROR}

MoveLines(lg) == {l \in lg : l.msg = "Moved"}

PlanLines(lg) == {l \in lg : l.msg = "[DRY-RUN] Move"}

\* The log lg reports an error for the entry n: about the file itself (no
\* free name for it, its rename failed) or about the category folder it
\* needs
ErrorReportedIn(lg, n) ==
    \E l \in {x \in lg : x.level = LOG_LEVEL_ERROR} :
        \/ l.msg = "Failed to move" /\ l.a = SrcPath(n)
        \/ l.msg = "Could not generate unique name" /\ l.a = n
        \/ /\ l.msg \in {"Path exists but is not a directory",
                          "Failed to create directory"}
           /\ l.a = CategoryPath(n)

ErrorReportedFor(n) == ErrorReportedIn(log, n)

\* The entry n is a symbolic link whose target was gone by the time
\* readdir returned it: stat() failed, the link was skipped with a warning
\* and is where it was
LinkLeftUnresolved(n) ==
    /\ fs0.top[n].link
    /\ n \in DOMAIN fs.top /\ fs.top[n] = fs0.top[n]
    /\ \E l \in log : l.msg = "Skipping (cannot stat)" /\ l.a = SrcPath(n)

\* The file that was n at scan time now lies in its category folder, there
\* and nowhere else
InItsCategory(n) ==
    /\ Cardinality(Places(fs, fs0.top[n].id)) = 1
    /\ \E pl \in Places(fs, fs0.top[n].id) : pl[1] = ExpectedCategory[n]
    /\ TopNode(fs, ExpectedCategory[n]).type = "dir"

(***************************************************************************)
(* C1.  Dry-run guarantee: when a run with dry_run = true has returned,    *)
(* the filesystem is what it was when the run was entered (no directory    *)
(* created, no file moved).                                                *)
(***************************************************************************)
DryRunLeavesFilesystem == (pc = "done" /\ cfg.dry_run) => fs = fs0

(***************************************************************************)
(* C2.  After a non-dry-run on a valid target directory, every regular     *)
(* file that was at the top level at scan time lies in exactly one         *)
(* category folder, the one of its extension, or an error was reported     *)
(* for it; the end-to-end directory ends as Images/a.jpg, Documents/b.txt, *)
(* Other/c with status 0.  The same holds of every symbolic link that      *)
(* stat() reported as a regular file at scan time, unless its target was   *)
(* moved away before the link was read.                                    *)
(***************************************************************************)
EveryRegularFilePlaced ==
    (pc = "done" /\ CanStart /\ ~cfg.dry_run) =>
        /\ \A n \in RegularNames(fs0) :
              \/ InItsCategory(n)
              \/ ErrorReportedFor(n) /\ result # 0
              \/ LinkLeftUnresolved(n)
        /\ fs0 = FsOf(EndToEnd, "dir") =>
              /\ result = 0
              /\ DirLookup(fs.sub["Images"], "a.jpg").id = 1
              /\ DirLookup(fs.sub["Documents"], "b.txt").id = 2
              /\ DirLookup(fs.sub["Other"], "c").id = 3
              /\ RegularNames(fs) = {}

EndToEndDone ==
    /\ pc = "done" /\ run = 1 /\ ~cfg.dry_run /\ result = 0
    /\ fs0 = FsOf(EndToEnd, "dir")
    /\ DOMAIN fs.top = {"Images", "Documents", "Other", "notes"}
    /\ DirLookup(fs.sub["Images"], "a.jpg").id = 1

(***************************************************************************)
(* C3.  Non-regular entries of the target directory (directories,          *)
(* symbolic links, special files) are never acted upon: each stays where   *)
(* it was, and a directory that is no category folder keeps its contents.  *)
(***************************************************************************)
NonRegularUntouched ==
    \A n \in NonRegularNames(fs0) :
        /\ n \in DOMAIN fs.top
        /\ fs.top[n] = fs0.top[n]
        /\ (n \in DOMAIN fs0.sub /\ n \notin CategoryNames) => fs.sub[n] = fs0.sub[n]

(***************************************************************************)
(* C4.  Idempotence.  As first stated: after the immediate second          *)
(* non-dry-run the second run found no regular file at the top level,      *)
(* moved nothing and left the filesystem unchanged.                        *)
(***************************************************************************)
SecondRunIdle ==
    /\ RegularNames(fs0) = {}
    /\ MoveLines(log) = {}
    /\ fs = fs0

Occupied(f, path) == lstat(f, path) # NoNode

LastDot(n) ==
    CHOOSE k \in 0..Len(n) :
        /\ k > 0 => CharAt(n, k) = "."
        /\ \A j \in (k + 1)..Len(n) : CharAt(n, j) # "."

Stem(n) == IF LastDot(n) <= 1 THEN n ELSE SubSeq(n, 1, LastDot(n) - 1)

Ext(n) == IF LastDot(n) <= 1 THEN "" ELSE SubSeq(n, LastDot(n), Len(n))

Candidate(dir, n, i) == dir \o "/" \o Stem(n) \o "_" \o FormatInt(i) \o Ext(n)

\* dst is the documented destination of the file n in the filesystem f
DocumentedDestination(f, n, dst) ==
    LET dir == CategoryPath(n)
    IN  /\ ~Occupied(f, dst)
        /\ IF ~Occupied(f, dir \o "/" \o n)
           THEN dst = dir \o "/" \o n
           ELSE \E i \in 1..(SUFFIX_LIMIT - 1) :
                   /\ dst = Candidate(dir, n, i)
                   /\ \A j \in 1..(i - 1) : Occupied(f, Candidate(dir, n, j))
        /\ (n = "report.txt" /\ "Documents" \in DOMAIN f.sub
               /\ DOMAIN f.sub["Documents"].put = {}) =>
              /\ f.sub["Documents"].pre = "one" => dst = "d/Documents/report_1.txt"
              /\ f.sub["Documents"].pre = "two" => dst = "d/Documents/report_2.txt"
        /\ (n = ".bashrc" /\ "Other" \in DOMAIN f.sub) =>
              (f.sub["Other"].pre = "dot" => dst = "d/Other/.bashrc_1")

UniqueDestinationAsDocumented ==
    [][\A l \in log' \ log :
          l.msg \in {"Moved", "[DRY-RUN] Move", "Failed to move"} =>
              \E n \in DOMAIN fs.top :
                  l.a = SrcPath(n) /\ DocumentedDestination(fs, n, l.b)]_vars

SecondSuffixTaken ==
    \E l \in MoveLines(log) :
        l.a = "d/report.txt" /\ l.b = "d/Documents/report_2.txt"

(***************************************************************************)
(* C6.  Failure isolation: a failure for one entry does not end the scan.  *)
(* When the run returns, every regular file of the listing has been dealt  *)
(* with (moved to its category, planned under dry-run, or reported with an *)
(* error), and the status is nonzero as soon as one error was reported.    *)
(***************************************************************************)
Planned(n) == \E l \in PlanLines(log) : l.a = SrcPath(n)

FailuresAreIsolated ==
    (pc = "done" /\ CanStart) =>
        /\ \A n \in RegularNames(fs0) :
              \/ ErrorReportedFor(n)
              \/ IF cfg.dry_run THEN Planned(n) ELSE InItsCategory(n)
              \/ LinkLeftUnresolved(n)
        /\ ErrorLines # {} => result # 0

\* One file failed and a file of another category was still moved
OneFailedOtherMoved ==
    /\ pc = "done" /\ CanStart /\ ~cfg.dry_run /\ result # 0
    /\ \E n, m \in RegularNames(fs0) :
          /\ ExpectedCategory[n] # ExpectedCategory[m]
          /\ ErrorReportedFor(n) /\ n \in DOMAIN fs.top
          /\ InItsCategory(m)

(***************************************************************************)
(* C7.  Entry-point status: 0 exactly when the run could start and every   *)
(* entry that required action succeeded.  When the configuration or        *)
(* target_dir is null, or target_dir is missing, not a directory or cannot *)
(* be opened, the status is nonzero, no entry is processed and the         *)
(* filesystem is unchanged.                                                *)
(***************************************************************************)
StatusTellsSuccess ==
    pc = "done" =>
        /\ ~CanStart =>
              /\ result # 0
              /\ fs = fs0
              /\ Cardinality(log) = 1 /\ ErrorLines = log
        /\ CanStart => (result = 0 <=> ErrorLines = {})
        /\ (CanStart /\ ~cfg.dry_run) =>
              /\ result = 0 => RegularFiles(fs) = {}
              /\ NoLinkIntoTarget(fs0) => (result = 0 <=> RegularNames(fs) = {})
        /\ (CanStart /\ cfg.dry_run) =>
              (result = 0 <=> \A n \in RegularNames(fs0) : Planned(n))

RunCouldNotStart ==
    /\ pc = "done" /\ result # 0
    /\ cfg.kind = "ok" /\ fs0.base = "missing"

(***************************************************************************)
(* C8.  Enumeration order.  As first stated: for a fixed initial           *)
(* filesystem and configuration, the final filesystem and the status are   *)
(* the same for every order in which readdir returns the entries.  The     *)
(* run the model took (any order) is compared with the run over the same   *)
(* listing in one fixed order.                                             *)
(***************************************************************************)
RECURSIVE RunInOrder(_, _, _)
RunInOrder(st, c, names) ==
    IF names = {} THEN st
    ELSE LET n == CHOOSE x \in names : TRUE
         IN  RunInOrder(loop_body(st, c, n), c, names \ {n})

ReferenceRun ==
    RunInOrder([fs |-> fs0, result |-> 0, log |-> {}], cfg,
               DOMAIN fs0.top \cup {".", ".."})

SameAsReferenceRun == fs = ReferenceRun.fs /\ result = ReferenceRun.result

NoNameClash ==
    \A n \in RegularNames(fs0) :
        /\ n \notin CategoryNames
        /\ ~Occupied(fs0, CategoryPath(n) \o "/" \o n)

ExhaustionLines == {l \in log : l.msg = "Could not generate unique name"}

ExhaustionIsAnError ==
    /\ \A l \in ExhaustionLines :
          /\ result # 0
          /\ l.a \in DOMAIN fs.top /\ fs.top[l.a] = fs0.top[l.a]
          /\ \A m \in MoveLines(log) \cup PlanLines(log) : m.a # SrcPath(l.a)
          /\ fs.sub[ExpectedCategory[l.a]] = fs0.sub[ExpectedCategory[l.a]]
          /\ fs0.sub[ExpectedCategory[l.a]].pre = "full"
    /\ (pc = "done" /\ fs0 = FsOf(Exhausted, "dir") /\ CanStart) =>
          \E l \in ExhaustionLines : l.a = "report.txt"

RunTerminates ==
    /\ (pc = "scanning") ~> (pc = "done")
    /\ []ExhaustionIsAnError

SuffixesExhausted ==
    /\ pc = "done" /\ result # 0
    /\ \E l \in ExhaustionLines : l.a = "report.txt" /\ l.b = "d/Documents"
    /\ Occupied(fs, "d/Documents/report_9999.txt")
    /\ ~Occupied(fs, "d/Documents/report_10000.txt")

(***************************************************************************)
(* C10.  No overwrite, no loss: a rename is only issued to a destination   *)
(* at which no directory entry of any kind exists, and every regular file  *)
(* of the listing still exists, at its original place or at exactly one    *)
(* place inside a category folder.                                         *)
(***************************************************************************)
RenameOntoNothing ==
    \A l \in log' \ log :
        l.msg \in {"Moved", "Failed to move"} => lstat(fs, l.b) = NoNode

NoFileLost ==
    \A n \in RegularNames(fs0) :
        /\ Cardinality(Places(fs, fs0.top[n].id)) = 1
        /\ \A pl \in Places(fs, fs0.top[n].id) :
              pl = <<"", n>> \/ pl[1] \in CategoryNames

NoOverwriteNoLoss == [][RenameOntoNothing]_vars /\ []NoFileLost

====
